---- MODULE Spec2Model ----
(***************************************************************************)
(* Vinyl Scrobbler web application (index.html): the scan-to-scrobble      *)
(* pipeline of one page instance.  The page listens to the Firestore       *)
(* 'scans' collection; for every document reported as "added" it runs      *)
(* handleScan (session check, album lookup, album.getinfo, track.scrobble) *)
(* and afterwards deletes the scan document.  Every await of the code is a *)
(* suspension point and is one position of the handler below.              *)
(*                                                                         *)
(* Spec     the pipeline; of each request it keeps method, verb, signing   *)
(*          mode and number of entries.                                    *)
(* SpecRun  one run of getSessionKey and scrobbleAlbum with the parameters *)
(*          of every request in full.                                      *)
(* SpecSign generateApiSignature applied to small parameter mappings.      *)
(* SpecSettings  one page that handles a scan while its settings are       *)
(*          saved and loaded and its requests succeed or fail.             *)
(* SpecAdmin  the album form of the admin page (second application of      *)
(*          index.html) and the documents of the albums collection.        *)
(***************************************************************************)
EXTENDS Integers, Sequences, FiniteSets, TLC

\* ---------------------------------------------------------------- bounds
MaxScans == 2       \* scan documents the reader script writes in one run
MaxTracks == 2      \* longest tracklist the remote service returns
MaxParams == 2      \* most parameters of a mapping signed on its own
MaxWrites == 2      \* writes to the albums collection in one session of the admin page

\* ------------------------------------------------------------- constants
\* Seconds between the timestamps of two consecutive tracks of a batch.
TrackSeconds == 240

None == "none"
ScanIds == 1..MaxScans
Tags == {"TAG123"}
Mappings ==
  { [artist |-> "Pink Floyd", album |-> "The Dark Side of the Moon"],
    [artist |-> "Pink Floyd", album |-> "Animals"] }
\* A document that does not exist (snapshot.exists() is false).
NoDoc == [artist |-> None, album |-> None]
SessionKeys == {"sk1"}

\* --------------------------------------------------------------- strings
\* A JavaScript string is the sequence of its UTF-16 code units.  CodeUnits
\* spells out the string literals of the code and the sample values of this
\* model.
CodeUnits(s) ==
  CASE s = "method" -> <<109, 101, 116, 104, 111, 100>>
    [] s = "sk" -> <<115, 107>>
    [] s = "api_key" -> <<97, 112, 105, 95, 107, 101, 121>>
    [] s = "api_sig" -> <<97, 112, 105, 95, 115, 105, 103>>
    [] s = "format" -> <<102, 111, 114, 109, 97, 116>>
    [] s = "artist" -> <<97, 114, 116, 105, 115, 116>>
    [] s = "album" -> <<97, 108, 98, 117, 109>>
    [] s = "track" -> <<116, 114, 97, 99, 107>>
    [] s = "timestamp" -> <<116, 105, 109, 101, 115, 116, 97, 109, 112>>
    [] s = "username" -> <<117, 115, 101, 114, 110, 97, 109, 101>>
    [] s = "token" -> <<116, 111, 107, 101, 110>>
    [] s = "album.getinfo" -> <<97, 108, 98, 117, 109, 46, 103, 101, 116, 105, 110, 102, 111>>
    [] s = "track.scrobble" -> <<116, 114, 97, 99, 107, 46, 115, 99, 114, 111, 98, 98, 108, 101>>
    [] s = "auth.getSession" -> <<97, 117, 116, 104, 46, 103, 101, 116, 83, 101, 115, 115, 105, 111, 110>>
    [] s = "json" -> <<106, 115, 111, 110>>
    [] s = "Pink Floyd" -> <<80, 105, 110, 107, 32, 70, 108, 111, 121, 100>>
    [] s = "The Dark Side of the Moon" -> <<84, 104, 101, 32, 68, 97, 114, 107, 32, 83, 105, 100, 101, 32, 111, 102, 32, 116, 104, 101, 32, 77, 111, 111, 110>>
    [] s = "Animals" -> <<65, 110, 105, 109, 97, 108, 115>>
    [] s = "sk1" -> <<115, 107, 49>>
    [] s = "key1" -> <<107, 101, 121, 49>>
    [] s = "secret1" -> <<115, 101, 99, 114, 101, 116, 49>>
    [] s = "user1" -> <<117, 115, 101, 114, 49>>
    [] s = "tok1" -> <<116, 111, 107, 49>>
    [] s = "sk2" -> <<115, 107, 50>>
    [] s = "key2" -> <<107, 101, 121, 50>>
    [] s = "secret2" -> <<115, 101, 99, 114, 101, 116, 50>>
    \* an undefined value reads "undefined" where a string is built from it
    [] s = "none" -> <<117, 110, 100, 101, 102, 105, 110, 101, 100>>

Min(a, b) == IF a <= b THEN a ELSE b

\* String(n) for an integer n: its decimal digits.
RECURSIVE Digits(_)
Digits(n) ==
  IF n < 0 THEN <<45>> \o Digits(-n)
  ELSE IF n < 10 THEN <<48 + n>>
  ELSE Digits(n \div 10) \o <<48 + (n % 10)>>

\* a < b for two strings: the first differing code unit decides, and a proper
\* prefix comes first.  This is the order of Array.prototype.sort() without a
\* comparator.
LexLess(a, b) ==
  LET n == Min(Len(a), Len(b))
      differ == {i \in 1..n : a[i] # b[i]}
  IN IF differ = {} THEN Len(a) < Len(b)
     ELSE LET d == CHOOSE i \in differ : \A j \in differ : i <= j
          IN a[d] < b[d]

\* keys.sort(): the keys in ascending order.
RECURSIVE Sort(_)
Sort(keys) ==
  IF keys = <<>> THEN <<>>
  ELSE LET x == Head(keys)
           rest == Sort(Tail(keys))
       IN SelectSeq(rest, LAMBDA y : LexLess(y, x)) \o <<x>>
            \o SelectSeq(rest, LAMBDA y : ~LexLess(y, x))

\* A JavaScript object used as parameter map: the sequence of its
\* <<key, value>> properties in insertion order, keys distinct.
Keys(params) == [i \in 1..Len(params) |-> params[i][1]]
Has(params, key) == \E i \in 1..Len(params) : params[i][1] = key
Get(params, key) == params[CHOOSE i \in 1..Len(params) : params[i][1] = key][2]
\* params[key] = value: an existing property keeps its place.
Set(params, key, value) ==
  IF Has(params, key)
    THEN [i \in 1..Len(params) |-> IF params[i][1] = key THEN <<key, value>> ELSE params[i]]
    ELSE Append(params, <<key, value>>)

\* A track of an album.getinfo body; its name is "T1", "T2", ...
TrackName(i) == [name |-> <<84>> \o Digits(i)]
TrackList(n) == [i \in 1..n |-> TrackName(i)]

\* No album.getinfo result (tracklistData not assigned).
NoResponse == [kind |-> None, track |-> <<>>]

\* What `await makeApiRequest({method:'album.getinfo',...})` can evaluate to:
\* null (HTTP error or transport failure, caught inside makeApiRequest), or a
\* parsed body without `album`, with `album` but without `tracks`, with a
\* falsy `tracks.track`, with a bare track object, or with a track array.
TracklistResponses ==
  { [kind |-> k, track |-> <<>>] : k \in {"null", "noAlbum", "noTracks", "noTrack"} }
    \cup { [kind |-> "object", track |-> TrackList(1)] }
    \cup { [kind |-> "list", track |-> TrackList(n)] : n \in 0..MaxTracks }

\* What Date.now() can read (milliseconds) when a batch is built.
DateNow == {1000999, 1240000}

\* What `await makeApiRequest(scrobbleParams,'POST',true)` can evaluate to for
\* a batch of n entries: null, a body without `scrobbles`, a `scrobbles`
\* object without '@attr', or scrobbles['@attr'].accepted = 0..n.
ScrobbleResponses(n) ==
  { [kind |-> k, accepted |-> 0] : k \in {"null", "noScrobbles", "noAttr"} }
    \cup { [kind |-> "ok", accepted |-> a] : a \in 0..n }

\* ----------------------------------------------------------------- state
VARIABLES
  scans,             \* ids of the documents present in the 'scans' collection
  rfid,              \* scan id -> tag id written by the reader (None: not yet written)
  albums,            \* 'albums' collection: tag id -> mapping or NoDoc
  sessionStore,      \* config/lastfm_session document of the user
  lastFmSessionKey,  \* the page's global lastFmSessionKey
  h,                 \* scan id -> the page's handler for that document
  scrobbleLog,       \* newest result line of the page's scrobble log
  claimed,           \* scan id -> a handler has been started for it
  svc,               \* scan id -> the requests the scrobbling service has received for it
  sig,               \* a call of generateApiSignature made on its own
  run,               \* a run of getSessionKey and scrobbleAlbum with its requests in full
  lastFmCreds,       \* the page's global lastFmCreds
  configStore,       \* config/lastfm document of the user
  page,              \* a page whose settings are edited while it handles a scan
  admin              \* the album form of the admin page and the documents it manages

vars ==
  <<scans, rfid, albums, sessionStore, lastFmSessionKey, h, scrobbleLog, claimed, svc, sig,
    run, lastFmCreds, configStore, page, admin>>

\* A handler that has not been started (locals undefined).  `sent` lists the
\* requests this run of the handler has sent to the scrobbling service.
Idle ==
  [pc |-> "idle", albumData |-> NoDoc, tracks |-> <<>>, now |-> 0, timestamps |-> <<>>,
   sent |-> <<>>]

InFlight == {"lookup", "getinfo", "scrobble"}
Outcomes == {"Completed", "Failed", "Unresolved", "NotAuthenticated"}

\* The log before any scan result was written.
EmptyLog == [outcome |-> None, sent |-> <<>>, accepted |-> -1]

\* Keys, values and secrets of the mappings signed on their own: "a", "ab",
\* "b", "ba"; "b", "c", "bc"; "s", "t".
SignKeys == {<<97>>, <<97, 98>>, <<98>>, <<98, 97>>}
SignValues == {<<98>>, <<99>>, <<98, 99>>}
SignSecrets == {<<115>>, <<116>>}

\* The parameter mappings of at most MaxParams properties.
SignParams ==
  {p \in UNION {[1..n -> SignKeys \X SignValues] : n \in 0..MaxParams} :
     \A j, k \in 1..Len(p) : p[j][1] = p[k][1] => j = k}

\* The orders in which n properties can be inserted.
Orders(n) == {f \in [1..n -> 1..n] : \A j, k \in 1..n : f[j] = f[k] => j = k}

\* No call of generateApiSignature outside makeApiRequest.
NoCall ==
  [pc |-> "none", params |-> <<>>, reordered |-> <<>>, secret |-> <<>>,
   signature |-> None, signatureReordered |-> None]

\* No request was sent, no call of makeApiRequest has returned.
NoRequest == [method |-> <<>>, verb |-> None, signed |-> FALSE, entries |-> 0, params |-> <<>>]
NoFetch == [kind |-> None, ok |-> FALSE, json |-> FALSE, error |-> 0, message |-> None]
NoError == [kind |-> None, code |-> 0, message |-> None]
NoResult == [returned |-> None, thrown |-> NoError, logged |-> NoError]

\* A page that has sent no request and handled no scan; the admin page with
\* an empty form and no document in the albums collection.  (Where neither is
\* followed, `page` and `admin` are None.)
NewPage ==
  [save |-> "idle", saved |-> None, before |-> None, auth |-> "idle", scan |-> "none",
   rfid |-> None, albumData |-> NoDoc, req |-> NoRequest,
   held |-> [apiSecret |-> <<>>, sessionKey |-> None],
   fetched |-> NoFetch, result |-> NoResult, outcome |-> None]
NoWrite == [kind |-> None, tagId |-> "", artist |-> "", album |-> "", edit |-> None]
EmptyForm == [rfidTag |-> "", artist |-> "", album |-> "", disabled |-> FALSE]
NewAdmin ==
  [docs |-> {}, writes |-> 0, form |-> EmptyForm, currentEditRfidTag |-> None,
   saving |-> NoWrite, editing |-> None, repeated |-> FALSE]

\* No run is followed in full.
NoRun ==
  [pc |-> "none", albumData |-> NoDoc, tracklistData |-> NoResponse, ms |-> 0,
   tracks |-> <<>>, now |-> 0, timestamps |-> <<>>, sent |-> <<>>]

\* The credentials a user saved with saveSettings in an earlier visit.
SavedCreds ==
  [apiKey |-> CodeUnits("key1"), apiSecret |-> CodeUnits("secret1"),
   username |-> CodeUnits("user1")]

\* The page after it was opened by a user without a Last.fm session:
\* loadSettings has read config/lastfm into lastFmCreds.
InitPage ==
  /\ configStore = SavedCreds
  /\ lastFmCreds = SavedCreds
  /\ scans = {}
  /\ rfid = [e \in ScanIds |-> None]
  /\ albums = [t \in Tags |-> NoDoc]
  /\ sessionStore = None
  /\ lastFmSessionKey = None
  /\ h = [e \in ScanIds |-> Idle]
  /\ scrobbleLog = EmptyLog
  /\ claimed = [e \in ScanIds |-> FALSE]
  /\ svc = [e \in ScanIds |-> [getinfo |-> FALSE, scrobble |-> FALSE]]

Init ==
  /\ InitPage
  /\ sig = NoCall
  /\ run = NoRun
  /\ page = None
  /\ admin = None

\* ------------------------------------------------ pure parts of the code

\* CryptoJS.MD5(s).toString(): the digest of s, kept as the string it digests.
MD5(s) == [md5 |-> s]

\* keys.forEach(key => { signatureString += key + params[key]; })
RECURSIVE signatureString(_, _)
signatureString(keys, params) ==
  IF keys = <<>> THEN <<>>
  ELSE Head(keys) \o Get(params, Head(keys)) \o signatureString(Tail(keys), params)

\* Variant that signs the keys in insertion order.
generateApiSignatureUnsorted(params, secret) ==
  MD5(signatureString(Keys(params), params) \o secret)

\* Variant that puts '&' after every value.
generateApiSignatureSeparated(params, secret) ==
  MD5(signatureString(Sort(Keys(params)),
                      [i \in 1..Len(params) |-> <<params[i][1], params[i][2] \o <<38>>>>])
        \o secret)

\* generateApiSignature(params, secret)
generateApiSignature(params, secret) ==
  MD5(signatureString(Sort(Keys(params)), params) \o secret)

HasPrefix(s, prefix) ==
  Len(s) >= Len(prefix) /\ SubSeq(s, 1, Len(prefix)) = prefix

\* What the model keeps of a call makeApiRequest(params, method, isSigned):
\* the `method` parameter, the HTTP verb, the isSigned argument and the number
\* of track[i] parameters.
Issued(params, method, isSigned) ==
  [method |-> Get(params, CodeUnits("method")), verb |-> method, signed |-> isSigned,
   entries |-> Cardinality({i \in 1..Len(params) :
                              HasPrefix(params[i][1], CodeUnits("track") \o <<91>>)})]

\* Variant that sends every request with fetch(url): a GET.
RequestAlwaysGet(params, method, isSigned) ==
  [method |-> Get(params, CodeUnits("method")), verb |-> "GET", signed |-> isSigned,
   entries |-> Cardinality({i \in 1..Len(params) :
                              HasPrefix(params[i][1], CodeUnits("track") \o <<91>>)}),
   params |-> params]

\* The request fetch() sends, in full: `params` is the query string or form body.
Request(params, method, isSigned) ==
  [method |-> Get(params, CodeUnits("method")), verb |-> method, signed |-> isSigned,
   entries |-> Cardinality({i \in 1..Len(params) :
                              HasPrefix(params[i][1], CodeUnits("track") \o <<91>>)}),
   params |-> params]

\* Variant that adds format before it signs.
makeApiRequestFormatFirst(params, method, isSigned) ==
  LET withKey == Set(params, CodeUnits("api_key"), lastFmCreds.apiKey)
      withFormat == Set(withKey, CodeUnits("format"), CodeUnits("json"))
      withSig == IF isSigned
                   THEN Set(withFormat, CodeUnits("api_sig"),
                            generateApiSignature(withFormat, lastFmCreds.apiSecret))
                   ELSE withFormat
  IN Request(withSig, method, isSigned)

\* Variant that signs every request.
makeApiRequestAlwaysSigned(params, method, isSigned) ==
  LET withKey == Set(params, CodeUnits("api_key"), lastFmCreds.apiKey)
      withSig == Set(withKey, CodeUnits("api_sig"),
                     generateApiSignature(withKey, lastFmCreds.apiSecret))
  IN Request(Set(withSig, CodeUnits("format"), CodeUnits("json")), method, isSigned)

\* Variant that signs with the secret of the stored credentials.
makeApiRequestStoredSecret(params, method, isSigned) ==
  LET withKey == Set(params, CodeUnits("api_key"), lastFmCreds.apiKey)
      withSig == IF isSigned
                   THEN Set(withKey, CodeUnits("api_sig"),
                            generateApiSignature(withKey, configStore.apiSecret))
                   ELSE withKey
  IN Request(Set(withSig, CodeUnits("format"), CodeUnits("json")), method, isSigned)

\* makeApiRequest up to fetch(): params.api_key is set, then params.api_sig
\* when isSigned, then params.format.
makeApiRequest(params, method, isSigned) ==
  LET withKey == Set(params, CodeUnits("api_key"), lastFmCreds.apiKey)
      withSig == IF isSigned
                   THEN Set(withKey, CodeUnits("api_sig"),
                            generateApiSignature(withKey, lastFmCreds.apiSecret))
                   ELSE withKey
  IN Request(Set(withSig, CodeUnits("format"), CodeUnits("json")), method, isSigned)

\* Variant that takes no snapshot for an existing document.
albumSnapExistsNever(tag) == FALSE

\* Variant that takes every snapshot for an existing document.
albumSnapExistsAlways(tag) == TRUE

\* getDoc(albumRef) then albumSnap.exists() / albumSnap.data() in handleScan.
albumSnapExists(tag) == albums[tag] # NoDoc
albumSnapData(tag) == albums[tag]

\* Variant of the guard without the test of track.length.
TracklistCheckNoLength(tracklistData) ==
  CASE tracklistData.kind \in {"null", "noAlbum"} -> "fail"
    [] tracklistData.kind = "noTracks" -> "throw"
    [] tracklistData.kind = "noTrack" -> "fail"
    [] OTHER -> "ok"

\* scrobbleAlbum's guard on the album.getinfo result:
\*   !d || !d.album || !d.album.tracks.track || d.album.tracks.track.length === 0
\* "throw": d.album.tracks is undefined, reading .track raises a TypeError.
TracklistCheck(tracklistData) ==
  CASE tracklistData.kind \in {"null", "noAlbum"} -> "fail"
    [] tracklistData.kind = "noTracks" -> "throw"
    [] tracklistData.kind = "noTrack" -> "fail"
    [] tracklistData.kind = "list" /\ Len(tracklistData.track) = 0 -> "fail"
    [] OTHER -> "ok"

\* Variant that uses the bare object as it is: it has no length, so the loops
\* over tracks.length build nothing.
NormalizeTracksUnwrapped(tracklistData) ==
  IF tracklistData.kind = "list" THEN tracklistData.track
  ELSE <<>>

\* Array.isArray(track) ? track : [track]
NormalizeTracks(tracklistData) ==
  IF tracklistData.kind = "list" THEN tracklistData.track
  ELSE <<tracklistData.track[1]>>

\* Variant that reports success only when every entry was accepted.
ScrobbleCheckAllAccepted(scrobbleResponse, n) ==
  CASE scrobbleResponse.kind \in {"null", "noScrobbles"} -> "fail"
    [] scrobbleResponse.kind = "noAttr" -> "throw"
    [] OTHER -> IF scrobbleResponse.accepted >= n THEN "ok" ELSE "fail"

\* scrobbleAlbum's test of the track.scrobble result:
\*   r && r.scrobbles && r.scrobbles['@attr'].accepted > 0
\* "throw": r.scrobbles['@attr'] is undefined, reading .accepted raises.
ScrobbleCheck(scrobbleResponse, n) ==
  CASE scrobbleResponse.kind \in {"null", "noScrobbles"} -> "fail"
    [] scrobbleResponse.kind = "noAttr" -> "throw"
    [] OTHER -> IF scrobbleResponse.accepted > 0 THEN "ok" ELSE "fail"

\* scrobbleAlbum's request for the tracklist:
\*   {method: 'album.getinfo', artist, album, username: lastFmCreds.username}
getinfoParams(artist, album) ==
  << <<CodeUnits("method"), CodeUnits("album.getinfo")>>,
     <<CodeUnits("artist"), CodeUnits(artist)>>,
     <<CodeUnits("album"), CodeUnits(album)>>,
     <<CodeUnits("username"), lastFmCreds.username>> >>

\* getSessionKey's request: {method: 'auth.getSession', token: token}
getSessionParams ==
  << <<CodeUnits("method"), CodeUnits("auth.getSession")>>,
     <<CodeUnits("token"), CodeUnits("tok1")>> >>

Reverse(s) == [i \in 1..Len(s) |-> s[Len(s) + 1 - i]]

\* Variant without timestamps.reverse().
TimestampsNotReversed(now, n) == [i \in 1..n |-> now - (i - 1) * TrackSeconds]

\* for (i = 0; i < tracks.length; i++) timestamps.push(now - i * 240);
\* timestamps.reverse();
Timestamps(now, n) == Reverse([i \in 1..n |-> now - (i - 1) * TrackSeconds])

\* name + '[' + i + ']', the key `artist[${i}]` etc. of a batch entry.
IndexedKey(name, i) == CodeUnits(name) \o <<91>> \o Digits(i) \o <<93>>

\* Variant that reads the track names from the end of the tracklist.
RECURSIVE batchEntriesBackwards(_, _, _, _, _)
batchEntriesBackwards(i, artist, album, tracks, timestamps) ==
  IF i >= Len(tracks) THEN <<>>
  ELSE << <<IndexedKey("artist", i), CodeUnits(artist)>>,
          <<IndexedKey("album", i), CodeUnits(album)>>,
          <<IndexedKey("track", i), tracks[Len(tracks) - i].name>>,
          <<IndexedKey("timestamp", i), Digits(timestamps[i + 1])>> >>
         \o batchEntriesBackwards(i + 1, artist, album, tracks, timestamps)

\* The parameters of entry i (0-based) of the batch.  A timestamp is a number;
\* it is written in decimal where the parameter is used (key + params[key],
\* URLSearchParams).
RECURSIVE batchEntries(_, _, _, _, _)
batchEntries(i, artist, album, tracks, timestamps) ==
  IF i >= Len(tracks) THEN <<>>
  ELSE << <<IndexedKey("artist", i), CodeUnits(artist)>>,
          <<IndexedKey("album", i), CodeUnits(album)>>,
          <<IndexedKey("track", i), tracks[i + 1].name>>,
          <<IndexedKey("timestamp", i), Digits(timestamps[i + 1])>> >>
         \o batchEntries(i + 1, artist, album, tracks, timestamps)

\* Variant whose loop stops after the first track.
scrobbleParamsFirstTrack(artist, album, tracks, timestamps) ==
  << <<CodeUnits("method"), CodeUnits("track.scrobble")>>,
     <<CodeUnits("sk"), CodeUnits(lastFmSessionKey)>> >>
    \o batchEntries(0, artist, album, <<tracks[1]>>, timestamps)

\* scrobbleParams = {method: 'track.scrobble', sk: lastFmSessionKey} followed
\* by the entries of every track.
scrobbleParams(artist, album, tracks, timestamps) ==
  << <<CodeUnits("method"), CodeUnits("track.scrobble")>>,
     <<CodeUnits("sk"), CodeUnits(lastFmSessionKey)>> >>
    \o batchEntries(0, artist, album, tracks, timestamps)

\* The accepted count a response carries (-1: it carries none).
AcceptedOf(scrobbleResponse) ==
  IF scrobbleResponse.kind = "ok" THEN scrobbleResponse.accepted ELSE -1

\* logToScrobbler with the line that ends a run of handleScan for scan e.
LogResult(e, result, sent, accepted) ==
  [outcome |-> result, sent |-> sent, accepted |-> accepted]

\* The handler after `await handleScan(...)` resolved and the callback went on
\* to deleteDoc(change.doc.ref): both run in the same microtask checkpoint.
Done == [Idle EXCEPT !.pc = "done"]
\* A handler whose promise was rejected: nothing catches it, the rest of the
\* listener callback (deleteDoc) never runs.
Rejected(hd) ==
  [hd EXCEPT !.pc = "rejected", !.albumData = NoDoc, !.tracks = <<>>, !.now = 0,
             !.timestamps = <<>>]

\* ---------------------------------------------------------------- actions

\* The reader script writes a scanned tag id into the 'scans' collection.
NewScan(e, tag) ==
  /\ rfid[e] = None
  /\ \A d \in ScanIds : d < e => rfid[d] # None
  /\ rfid' = [rfid EXCEPT ![e] = tag]
  /\ scans' = scans \cup {e}
  /\ UNCHANGED <<sig, run, lastFmCreds, configStore, page, admin, albums, sessionStore, lastFmSessionKey, h, scrobbleLog, claimed, svc>>

Max(S) == CHOOSE x \in S : \A y \in S : y <= x

\* Variant that claims first: it removes the documents before any handler
\* reaches a remote call.
onSnapshotClaimFirst(S) ==
  /\ S # {} /\ S \subseteq scans
  /\ \A e \in S : h[e].pc = "idle"
  /\ claimed' = [e \in ScanIds |-> (e \in S) \/ claimed[e]]
  /\ scans' = scans \ S
  /\ IF lastFmSessionKey = None
       THEN /\ h' = [e \in ScanIds |-> IF e \in S THEN Done ELSE h[e]]
            /\ scrobbleLog' = LogResult(Max(S), "NotAuthenticated", <<>>, -1)
       ELSE /\ h' = [e \in ScanIds |-> IF e \in S THEN [Idle EXCEPT !.pc = "lookup"] ELSE h[e]]
            /\ UNCHANGED scrobbleLog
  /\ UNCHANGED <<sig, run, lastFmCreds, configStore, page, admin, rfid, albums, sessionStore, lastFmSessionKey, svc>>

\* Variant that leaves the scan document in place when no session key is held.
onSnapshotKeepsScan(S) ==
  /\ S # {} /\ S \subseteq scans
  /\ \A e \in S : h[e].pc = "idle"
  /\ claimed' = [e \in ScanIds |-> (e \in S) \/ claimed[e]]
  /\ IF lastFmSessionKey = None
       THEN /\ h' = [e \in ScanIds |-> IF e \in S THEN Done ELSE h[e]]
            /\ scrobbleLog' = LogResult(Max(S), "NotAuthenticated", <<>>, -1)
            /\ UNCHANGED scans
       ELSE /\ h' = [e \in ScanIds |-> IF e \in S THEN [Idle EXCEPT !.pc = "lookup"] ELSE h[e]]
            /\ UNCHANGED <<scrobbleLog, scans>>
  /\ UNCHANGED <<sig, run, lastFmCreds, configStore, page, admin, rfid, albums, sessionStore, lastFmSessionKey, svc>>

\* The scans onSnapshot callback: docChanges().forEach(async ...) starts one
\* handler per added document; each runs synchronously to its first await.
\* Without a session key handleScan logs and returns at once and the callback
\* deletes the document; otherwise handleScan has issued getDoc(albumRef) and
\* is suspended, and the document stays.
onSnapshot(S) ==
  /\ S # {} /\ S \subseteq scans
  /\ \A e \in S : h[e].pc = "idle"
  /\ claimed' = [e \in ScanIds |-> (e \in S) \/ claimed[e]]
  /\ IF lastFmSessionKey = None
       THEN /\ h' = [e \in ScanIds |-> IF e \in S THEN Done ELSE h[e]]
            /\ scrobbleLog' = LogResult(Max(S), "NotAuthenticated", <<>>, -1)
            /\ scans' = scans \ S
       ELSE /\ h' = [e \in ScanIds |-> IF e \in S THEN [Idle EXCEPT !.pc = "lookup"] ELSE h[e]]
            /\ UNCHANGED <<scrobbleLog, scans>>
  /\ UNCHANGED <<sig, run, lastFmCreds, configStore, page, admin, rfid, albums, sessionStore, lastFmSessionKey, svc>>

\* getDoc(albumRef) rejects (store unavailable): handleScan has no try/catch.
LookupFails(e) ==
  /\ h[e].pc = "lookup"
  /\ h' = [h EXCEPT ![e] = Rejected(h[e])]
  /\ UNCHANGED <<sig, run, lastFmCreds, configStore, page, admin, scans, rfid, albums, sessionStore, lastFmSessionKey, scrobbleLog, claimed, svc>>

\* getDoc(albumRef) resolves.  An existing mapping is logged and scrobbleAlbum
\* runs to its first await, which sends album.getinfo (unsigned GET); a
\* missing mapping is logged as "not in your collection", handleScan returns
\* and the callback deletes the scan document.
LookupReply(e) ==
  /\ h[e].pc = "lookup"
  /\ IF albumSnapExists(rfid[e])
       THEN LET albumData == albumSnapData(rfid[e])
                req == Issued(getinfoParams(albumData.artist, albumData.album),
                              "GET", FALSE)
            IN /\ h' = [h EXCEPT ![e] = [@ EXCEPT !.pc = "getinfo",
                                                   !.albumData = albumData,
                                                   !.sent = Append(@, req)]]
               /\ svc' = [svc EXCEPT ![e].getinfo = TRUE]
               /\ UNCHANGED <<scrobbleLog, scans>>
       ELSE /\ h' = [h EXCEPT ![e] = Done]
            /\ scrobbleLog' = LogResult(e, "Unresolved", h[e].sent, -1)
            /\ scans' = scans \ {e}
            /\ UNCHANGED svc
  /\ UNCHANGED <<sig, run, lastFmCreds, configStore, page, admin, rfid, albums, sessionStore, lastFmSessionKey, claimed>>

\* album.getinfo answers with tracklistData.  scrobbleAlbum either logs
\* "Could not find tracklist" and returns (the callback then deletes the scan
\* document), raises on a body without tracks, or builds the batch and sends
\* track.scrobble (signed POST).
TracklistReply(e, tracklistData, ms) ==
  /\ h[e].pc = "getinfo"
  /\ LET check == TracklistCheck(tracklistData)
     IN CASE check = "fail" ->
               /\ h' = [h EXCEPT ![e] = Done]
               /\ scrobbleLog' = LogResult(e, "Failed", h[e].sent, -1)
               /\ scans' = scans \ {e}
               /\ UNCHANGED svc
          [] check = "throw" ->
               /\ h' = [h EXCEPT ![e] = Rejected(@)]
               /\ UNCHANGED <<svc, scrobbleLog, scans>>
          [] OTHER ->
               LET tracks == NormalizeTracks(tracklistData)
                   now == ms \div 1000
                   timestamps == Timestamps(now, Len(tracks))
                   req == Issued(scrobbleParams(h[e].albumData.artist, h[e].albumData.album,
                                                tracks, timestamps),
                                 "POST", TRUE)
               IN /\ h' = [h EXCEPT ![e] = [@ EXCEPT !.pc = "scrobble",
                                                      !.tracks = tracks,
                                                      !.now = now,
                                                      !.timestamps = timestamps,
                                                      !.sent = Append(@, req)]]
                  /\ svc' = [svc EXCEPT ![e].scrobble = TRUE]
                  /\ UNCHANGED <<scrobbleLog, scans>>
  /\ UNCHANGED <<sig, run, lastFmCreds, configStore, page, admin, rfid, albums, sessionStore, lastFmSessionKey, claimed>>

\* track.scrobble answers with scrobbleResponse: success or failure is logged,
\* handleScan returns and the callback deletes the scan document; or reading
\* '@attr'.accepted raises.
ScrobbleReply(e, scrobbleResponse) ==
  /\ h[e].pc = "scrobble"
  /\ LET check == ScrobbleCheck(scrobbleResponse, Len(h[e].tracks))
     IN IF check = "throw"
          THEN /\ h' = [h EXCEPT ![e] = Rejected(@)]
               /\ UNCHANGED <<scrobbleLog, scans>>
          ELSE /\ h' = [h EXCEPT ![e] = Done]
               /\ scrobbleLog' = LogResult(e, IF check = "ok" THEN "Completed" ELSE "Failed",
                                           h[e].sent, AcceptedOf(scrobbleResponse))
               /\ scans' = scans \ {e}
  /\ UNCHANGED <<sig, run, lastFmCreds, configStore, page, admin, rfid, albums, sessionStore, lastFmSessionKey, claimed, svc>>

\* The page is reloaded (or crashes and is opened again): every handler in
\* flight is gone, the log is empty, loadSettings reads the session document,
\* and the new scans listener reports every document still in the collection
\* as "added".  (With every handler idle and the log empty a reload changes
\* nothing, hence the first conjunct.)
Reload ==
  /\ \E e \in ScanIds : h[e] # Idle
  /\ h' = [e \in ScanIds |-> Idle]
  /\ scrobbleLog' = EmptyLog
  /\ lastFmSessionKey' = sessionStore
  /\ UNCHANGED <<sig, run, lastFmCreds, configStore, page, admin, scans, rfid, albums, sessionStore, claimed, svc>>

\* getSessionKey(token), run when the URL carries a token and no session key
\* is held: a successful auth.getSession sets the global and the session document.
getSessionKey(sk) ==
  /\ lastFmSessionKey = None
  /\ lastFmSessionKey' = sk
  /\ sessionStore' = sk
  /\ UNCHANGED <<sig, run, lastFmCreds, configStore, page, admin, scans, rfid, albums, h, scrobbleLog, claimed, svc>>

\* addAlbum: setDoc(albums/<rfid>, {artist, album, owner}).
addAlbum(tag, m) ==
  /\ albums[tag] # m
  /\ albums' = [albums EXCEPT ![tag] = m]
  /\ UNCHANGED <<sig, run, lastFmCreds, configStore, page, admin, scans, rfid, sessionStore, lastFmSessionKey, h, scrobbleLog, claimed, svc>>

\* The album list's Delete button: deleteDoc(albums/<id>).
deleteAlbum(tag) ==
  /\ albums[tag] # NoDoc
  /\ albums' = [albums EXCEPT ![tag] = NoDoc]
  /\ UNCHANGED <<sig, run, lastFmCreds, configStore, page, admin, scans, rfid, sessionStore, lastFmSessionKey, h, scrobbleLog, claimed, svc>>

Next ==
  \/ \E e \in ScanIds, tag \in Tags : NewScan(e, tag)
  \/ \E S \in SUBSET ScanIds : onSnapshot(S)
  \/ \E e \in ScanIds : LookupFails(e)
  \/ \E e \in ScanIds : LookupReply(e)
  \/ \E e \in ScanIds, d \in TracklistResponses, ms \in DateNow : TracklistReply(e, d, ms)
  \/ \E e \in ScanIds : \E r \in ScrobbleResponses(Len(h[e].tracks)) : ScrobbleReply(e, r)
  \/ Reload
  \/ \E sk \in SessionKeys : getSessionKey(sk)
  \/ \E tag \in Tags, m \in Mappings : addAlbum(tag, m)
  \/ \E tag \in Tags : deleteAlbum(tag)

Spec == Init /\ [][Next]_vars

\* ------------------------------------------- generateApiSignature on its own

\* A caller holds a mapping, the same mapping with its properties inserted in
\* another order, and a secret.
InitSign ==
  /\ InitPage
  /\ run = NoRun
  /\ page = None
  /\ admin = None
  /\ \E p \in SignParams, secret \in SignSecrets :
       \E order \in Orders(Len(p)) :
         sig = [NoCall EXCEPT !.pc = "called", !.params = p,
                              !.reordered = [i \in 1..Len(p) |-> p[order[i]]],
                              !.secret = secret]

\* The caller signs both.
Sign ==
  /\ sig.pc = "called"
  /\ sig' = [sig EXCEPT !.pc = "returned",
                        !.signature = generateApiSignature(sig.params, sig.secret),
                        !.signatureReordered = generateApiSignature(sig.reordered, sig.secret)]
  /\ UNCHANGED <<run, lastFmCreds, configStore, page, admin, scans, rfid, albums, sessionStore, lastFmSessionKey, h, scrobbleLog,
                 claimed, svc>>

NextSign == Sign

SpecSign == InitSign /\ [][NextSign]_vars

\* ------------------------------------- one run with its requests in full

\* The tracks album.getinfo can name, and what the call can evaluate to when
\* the tracks come in any order.
TrackNames == {TrackName(i) : i \in 1..MaxTracks}
FullResponses ==
  { [kind |-> k, track |-> <<>>] : k \in {"null", "noAlbum", "noTracks", "noTrack"} }
    \cup { [kind |-> "object", track |-> <<t>>] : t \in TrackNames }
    \cup { [kind |-> "list", track |-> l] :
             l \in UNION {[1..n -> TrackNames] : n \in 0..MaxTracks} }

\* The page of a user who comes back from Last.fm with a token and then scans
\* the tag of a mapping.  What album.getinfo will answer and what Date.now()
\* will read are fixed at the start.
InitRun ==
  /\ InitPage
  /\ sig = NoCall
  /\ page = None
  /\ admin = None
  /\ \E m \in Mappings, d \in FullResponses, ms \in DateNow :
       run = [NoRun EXCEPT !.pc = "start", !.albumData = m, !.tracklistData = d, !.ms = ms]

\* getSessionKey(token) up to the response with the session.
RunGetSessionKey(sk) ==
  /\ run.pc = "start"
  /\ lastFmSessionKey = None
  /\ lastFmSessionKey' = sk
  /\ sessionStore' = sk
  /\ run' = [run EXCEPT !.pc = "authenticated",
                        !.sent = Append(@, makeApiRequest(getSessionParams, "GET", TRUE))]
  /\ UNCHANGED <<sig, lastFmCreds, configStore, page, admin, scans, rfid, albums, h, scrobbleLog, claimed, svc>>

\* scrobbleAlbum(artist, album) up to its first await.
RunScrobbleAlbum ==
  /\ run.pc = "authenticated"
  /\ run' = [run EXCEPT !.pc = "getinfo",
                        !.sent = Append(@, makeApiRequest(
                                   getinfoParams(run.albumData.artist, run.albumData.album),
                                   "GET", FALSE))]
  /\ UNCHANGED <<sig, lastFmCreds, configStore, page, admin, scans, rfid, albums, sessionStore, lastFmSessionKey, h, scrobbleLog,
                 claimed, svc>>

\* scrobbleAlbum from the album.getinfo result to its second await (or its end).
RunTracklist ==
  /\ run.pc = "getinfo"
  /\ LET check == TracklistCheck(run.tracklistData)
     IN CASE check = "fail" -> run' = [run EXCEPT !.pc = "failed"]
          [] check = "throw" -> run' = [run EXCEPT !.pc = "rejected"]
          [] OTHER ->
               LET tracks == NormalizeTracks(run.tracklistData)
                   now == run.ms \div 1000
                   timestamps == Timestamps(now, Len(tracks))
                   req == makeApiRequest(
                            scrobbleParams(run.albumData.artist, run.albumData.album,
                                           tracks, timestamps),
                            "POST", TRUE)
               IN run' = [run EXCEPT !.pc = "scrobble", !.tracks = tracks, !.now = now,
                                     !.timestamps = timestamps, !.sent = Append(@, req)]
  /\ UNCHANGED <<sig, lastFmCreds, configStore, page, admin, scans, rfid, albums, sessionStore, lastFmSessionKey, h, scrobbleLog,
                 claimed, svc>>

NextRun ==
  \/ \E sk \in SessionKeys : RunGetSessionKey(sk)
  \/ RunScrobbleAlbum
  \/ RunTracklist

SpecRun == InitRun /\ [][NextRun]_vars

\* ------------------------------ a page whose settings change during a scan

\* What the user can type into the settings form: two complete sets of
\* credentials and one with the API secret left empty.
Credentials ==
  { SavedCreds,
    [apiKey |-> CodeUnits("key2"), apiSecret |-> CodeUnits("secret2"),
     username |-> CodeUnits("user1")],
    [apiKey |-> CodeUnits("key2"), apiSecret |-> <<>>, username |-> CodeUnits("user1")] }

\* The session keys auth.getSession can return.
ExchangedKeys == {"sk1", "sk2"}

\* What fetch() and response.json() can do for one request: fetch() rejects
\* (network unreachable), or there is a response with response.ok true or
\* false whose body parses as JSON or does not; an error body carries the
\* service's {error, message}.
FetchOutcomes ==
  { [NoFetch EXCEPT !.kind = "rejected"] }
    \cup { [NoFetch EXCEPT !.kind = "response", !.ok = TRUE, !.json = j] : j \in BOOLEAN }
    \cup { [NoFetch EXCEPT !.kind = "response"] }
    \cup { [NoFetch EXCEPT !.kind = "response", !.json = TRUE, !.error = 9,
                           !.message = "Invalid session key"] }

\* makeApiRequest from fetch() on: what the call evaluates to, what it raises
\* to its caller and what it writes to the log.  Every failure is raised
\* inside the try block, caught, logged as "API Request Failed: <message>" and
\* turned into the value null.
makeApiResponse(f) ==
  CASE f.kind = "rejected" ->
         [returned |-> "null", thrown |-> NoError,
          logged |-> [NoError EXCEPT !.kind = "TypeError"]]
    [] ~f.json ->
         [returned |-> "null", thrown |-> NoError,
          logged |-> [NoError EXCEPT !.kind = "SyntaxError"]]
    [] ~f.ok ->
         [returned |-> "null", thrown |-> NoError,
          logged |-> [kind |-> "Last.fm API Error", code |-> f.error,
                      message |-> f.message]]
    [] OTHER -> [returned |-> "body", thrown |-> NoError, logged |-> NoError]

\* The credential state a request is sent under.
Held == [apiSecret |-> lastFmCreds.apiSecret, sessionKey |-> lastFmSessionKey]

\* The page when loadSettings has read the two documents.  `token`: the URL
\* carries a token of Last.fm; onAuthStateChanged has yet to register the
\* listeners and to test `authToken && !lastFmSessionKey`.
Loaded(token, creds) ==
  [NewPage EXCEPT !.before = creds, !.auth = IF token THEN "token" ELSE "idle"]

InitSettings ==
  /\ InitPage
  /\ sig = NoCall
  /\ run = NoRun
  /\ admin = None
  /\ \E token \in BOOLEAN : page = Loaded(token, lastFmCreds)

\* The page is opened again: loadSettings reads config/lastfm and
\* config/lastfm_session, the handlers of the old page are gone.
loadSettings(token) ==
  /\ page.save = "idle"
  /\ lastFmCreds' = configStore
  /\ lastFmSessionKey' = sessionStore
  /\ page' = Loaded(token, configStore)
  /\ UNCHANGED <<sig, run, admin, configStore, scans, rfid, albums, sessionStore, h,
                 scrobbleLog, claimed, svc>>

\* onAuthStateChanged after `await loadSettings()`: the listeners are
\* registered and, with a token and no session key, getSessionKey(token) runs
\* to its await of auth.getSession.
getSessionKeySend ==
  /\ page.auth = "token"
  /\ IF lastFmSessionKey = None
       THEN page' = [page EXCEPT !.auth = "exchanging",
                                 !.req = makeApiRequest(getSessionParams, "GET", TRUE),
                                 !.held = Held]
       ELSE page' = [page EXCEPT !.auth = "idle"]
  /\ UNCHANGED <<sig, run, admin, lastFmCreds, configStore, scans, rfid, albums, sessionStore,
                 lastFmSessionKey, h, scrobbleLog, claimed, svc>>

\* auth.getSession answers.  With a session in the body the key is set and
\* written to config/lastfm_session (`stored`: setDoc resolves); otherwise
\* "Failed to get session key from Last.fm." is logged.
getSessionKeyReply(f, sk, stored) ==
  /\ page.auth = "exchanging"
  /\ LET response == makeApiResponse(f)
     IN /\ page' = [page EXCEPT !.auth = "idle", !.fetched = f, !.result = response]
        /\ IF response.returned = "body"
             THEN /\ lastFmSessionKey' = sk
                  /\ sessionStore' = IF stored THEN sk ELSE sessionStore
             ELSE UNCHANGED <<lastFmSessionKey, sessionStore>>
  /\ UNCHANGED <<sig, run, admin, lastFmCreds, configStore, scans, rfid, albums, h,
                 scrobbleLog, claimed, svc>>

\* Variant that also forgets the session key.
saveSettingsResetsSession(c) ==
  /\ page.save = "idle"
  /\ lastFmCreds' = c
  /\ lastFmSessionKey' = None
  /\ page' = [page EXCEPT !.save = "writing", !.saved = None, !.before = lastFmCreds]
  /\ UNCHANGED <<sig, run, admin, configStore, scans, rfid, albums, sessionStore, h,
                 scrobbleLog, claimed, svc>>

\* saveSettings up to `await setDoc(docRef, lastFmCreds)`: lastFmCreds is
\* replaced by the form's values and the Save button is disabled.
saveSettings(c) ==
  /\ page.save = "idle"
  /\ lastFmCreds' = c
  /\ page' = [page EXCEPT !.save = "writing", !.saved = None, !.before = lastFmCreds]
  /\ UNCHANGED <<sig, run, admin, configStore, scans, rfid, albums, sessionStore,
                 lastFmSessionKey, h, scrobbleLog, claimed, svc>>

\* setDoc resolves ("API settings saved successfully.") or rejects ("Failed
\* to save settings."); the button is enabled again.
saveSettingsReply(ok) ==
  /\ page.save = "writing"
  /\ configStore' = IF ok THEN lastFmCreds ELSE configStore
  /\ page' = [page EXCEPT !.save = "idle", !.saved = IF ok THEN "saved" ELSE "failed"]
  /\ UNCHANGED <<sig, run, admin, lastFmCreds, scans, rfid, albums, sessionStore,
                 lastFmSessionKey, h, scrobbleLog, claimed, svc>>

\* The scans listener reports a document; handleScan runs to its first await.
handleScan(tag) ==
  /\ page.scan = "none"
  /\ page.auth # "token"
  /\ IF lastFmSessionKey = None
       THEN page' = [page EXCEPT !.scan = "done", !.rfid = tag,
                                 !.outcome = "NotAuthenticated"]
       ELSE page' = [page EXCEPT !.scan = "lookup", !.rfid = tag]
  /\ UNCHANGED <<sig, run, admin, lastFmCreds, configStore, scans, rfid, albums, sessionStore,
                 lastFmSessionKey, h, scrobbleLog, claimed, svc>>

\* getDoc(albumRef) resolves; scrobbleAlbum(albumData.artist, albumData.album)
\* runs to its first await.
handleScanLookup ==
  /\ page.scan = "lookup"
  /\ IF albumSnapExists(page.rfid)
       THEN LET albumData == albumSnapData(page.rfid)
            IN page' = [page EXCEPT !.scan = "getinfo", !.albumData = albumData,
                                    !.req = makeApiRequest(
                                              getinfoParams(albumData.artist, albumData.album),
                                              "GET", FALSE),
                                    !.held = Held]
       ELSE page' = [page EXCEPT !.scan = "done", !.outcome = "Unresolved"]
  /\ UNCHANGED <<sig, run, admin, lastFmCreds, configStore, scans, rfid, albums, sessionStore,
                 lastFmSessionKey, h, scrobbleLog, claimed, svc>>

\* Variant that reads the mapping again when it builds the batch.
batchMappingReread == albumSnapData(page.rfid)

\* The artist and album scrobbleAlbum was called with.
batchMapping == page.albumData

\* album.getinfo answers: null ends the scan as failed, a tracklist (here of
\* one track) is turned into the batch and track.scrobble is sent.
scrobbleAlbumTracklist(f) ==
  /\ page.scan = "getinfo"
  /\ LET tracklistData == makeApiResponse(f)
     IN IF tracklistData.returned = "null"
          THEN page' = [page EXCEPT !.scan = "done", !.outcome = "Failed",
                                    !.fetched = f, !.result = tracklistData]
          ELSE LET tracks == NormalizeTracks([kind |-> "object", track |-> TrackList(1)])
                   timestamps == Timestamps(Max(DateNow) \div 1000, Len(tracks))
               IN page' = [page EXCEPT !.scan = "scrobble", !.fetched = f,
                                       !.result = tracklistData,
                                       !.req = makeApiRequest(
                                                 scrobbleParams(batchMapping.artist,
                                                                batchMapping.album,
                                                                tracks, timestamps),
                                                 "POST", TRUE),
                                       !.held = Held]
  /\ UNCHANGED <<sig, run, admin, lastFmCreds, configStore, scans, rfid, albums, sessionStore,
                 lastFmSessionKey, h, scrobbleLog, claimed, svc>>

\* track.scrobble answers: null is logged as "Scrobbling failed", a body that
\* accepts the entry as success.
scrobbleAlbumResult(f) ==
  /\ page.scan = "scrobble"
  /\ LET scrobbleResponse == makeApiResponse(f)
     IN page' = [page EXCEPT !.scan = "done", !.fetched = f, !.result = scrobbleResponse,
                             !.outcome = IF scrobbleResponse.returned = "null"
                                           THEN "Failed" ELSE "Completed"]
  /\ UNCHANGED <<sig, run, admin, lastFmCreds, configStore, scans, rfid, albums, sessionStore,
                 lastFmSessionKey, h, scrobbleLog, claimed, svc>>

NextSettings ==
  \/ \E token \in BOOLEAN : loadSettings(token)
  \/ getSessionKeySend
  \/ \E f \in FetchOutcomes, sk \in ExchangedKeys, stored \in BOOLEAN :
       getSessionKeyReply(f, sk, stored)
  \/ \E c \in Credentials : saveSettings(c)
  \/ \E ok \in BOOLEAN : saveSettingsReply(ok)
  \/ \E tag \in Tags : handleScan(tag)
  \/ handleScanLookup
  \/ \E f \in FetchOutcomes : scrobbleAlbumTracklist(f)
  \/ \E f \in FetchOutcomes : scrobbleAlbumResult(f)
  \/ \E tag \in Tags, m \in Mappings : addAlbum(tag, m)
  \/ \E tag \in Tags : deleteAlbum(tag)

SpecSettings == InitSettings /\ [][NextSettings]_vars

\* ------------------------------------------- the album form of the admin page

\* The tag ids of the documents, and what a user can type into the tag field.
AdminTags == {"TAG123", "TAG456"}
TagInputs == AdminTags \cup {" TAG123 "}

\* String.prototype.trim on the strings of this model.
Trim(s) == IF s = " TAG123 " THEN "TAG123" ELSE s

\* The mapping a tag id resolves to in the albums collection.
Resolve(docs, tagId) ==
  IF \E d \in docs : d.id = tagId
    THEN LET d == CHOOSE d \in docs : d.id = tagId
         IN [artist |-> d.artist, album |-> d.album]
    ELSE NoDoc
Resolvable(docs) == [t \in AdminTags |-> Resolve(docs, t)]

\* Variant that adds a document of its own for every save.
SetMergeAdds(docs, tagId, albumData) ==
  docs \cup {[id |-> tagId, owner |-> None] @@ albumData}

\* db.collection(albumsBasePath).doc(tagId).set(albumData, {merge: true}):
\* the fields of albumData are written, the others (owner) stay.
SetMerge(docs, tagId, albumData) ==
  LET old == {d \in docs : d.id = tagId}
      owner == IF old = {} THEN None ELSE (CHOOSE d \in old : TRUE).owner
  IN (docs \ old) \cup {[id |-> tagId, owner |-> owner] @@ albumData}

\* setDoc(docRef, {artist, album, owner: userId}): the document is replaced.
SetDoc(docs, id, data) ==
  (docs \ {d \in docs : d.id = id})
    \cup {[id |-> id, rfid_tag |-> None, updatedAt |-> 0] @@ data}

InitAdmin ==
  /\ InitPage
  /\ sig = NoCall
  /\ run = NoRun
  /\ page = None
  /\ admin = NewAdmin

AdminUnchanged ==
  UNCHANGED <<sig, run, page, lastFmCreds, configStore, scans, rfid, albums, sessionStore,
              lastFmSessionKey, h, scrobbleLog, claimed, svc>>

\* The user types into the form; a disabled tag field takes no input.
fillAlbumForm(tagInput, m) ==
  /\ admin' = [admin EXCEPT !.form = [rfidTag |-> IF @.disabled THEN @.rfidTag ELSE tagInput,
                                      artist |-> m.artist, album |-> m.album,
                                      disabled |-> @.disabled]]
  /\ AdminUnchanged

\* Click on Save Album, up to `await ...set(albumData, {merge: true})`.  (With
\* an empty field the handler alerts and returns.)
saveAlbum ==
  /\ admin.saving = NoWrite
  /\ LET tagId == Trim(admin.form.rfidTag)
     IN /\ tagId # "" /\ admin.form.artist # "" /\ admin.form.album # ""
        /\ admin' = [admin EXCEPT !.saving = [kind |-> "merge", tagId |-> tagId,
                                              artist |-> admin.form.artist,
                                              album |-> admin.form.album,
                                              edit |-> admin.currentEditRfidTag]]
  /\ AdminUnchanged

\* clearAlbumForm()
clearAlbumForm == [admin EXCEPT !.form = EmptyForm, !.currentEditRfidTag = None]

\* The write resolves (the document is merged, the form cleared, the list
\* refreshed) or rejects (an alert).
saveAlbumReply(ok) ==
  /\ admin.saving.kind = "merge"
  /\ IF ok
       THEN /\ admin.writes < MaxWrites
            /\ LET w == admin.saving
                   albumData == [artist |-> w.artist, album |-> w.album,
                                 rfid_tag |-> w.tagId, updatedAt |-> admin.writes + 1]
               IN admin' = [clearAlbumForm EXCEPT
                              !.docs = SetMerge(@, w.tagId, albumData),
                              !.writes = @ + 1,
                              !.repeated = Resolve(admin.docs, w.tagId)
                                             = [artist |-> w.artist, album |-> w.album],
                              !.saving = NoWrite]
       ELSE admin' = [admin EXCEPT !.saving = NoWrite]
  /\ AdminUnchanged

\* The Clear button.
clearAlbumFormBtn ==
  /\ admin' = clearAlbumForm
  /\ AdminUnchanged

\* addAlbum of the scrobbler page, on the same collection, up to its await.
addAlbumDoc(rfidInput, m) ==
  /\ admin.saving = NoWrite
  /\ admin' = [admin EXCEPT !.saving = [kind |-> "set", tagId |-> Trim(rfidInput),
                                        artist |-> m.artist, album |-> m.album,
                                        edit |-> None]]
  /\ AdminUnchanged

\* setDoc resolves ("Added ... to collection.") or rejects ("Failed to add album.").
addAlbumDocReply(ok) ==
  /\ admin.saving.kind = "set"
  /\ IF ok
       THEN /\ admin.writes < MaxWrites
            /\ LET w == admin.saving
               IN admin' = [admin EXCEPT
                              !.docs = SetDoc(@, w.tagId, [artist |-> w.artist,
                                                           album |-> w.album,
                                                           owner |-> "user"]),
                              !.writes = @ + 1,
                              !.repeated = Resolve(admin.docs, w.tagId)
                                             = [artist |-> w.artist, album |-> w.album],
                              !.saving = NoWrite]
       ELSE admin' = [admin EXCEPT !.saving = NoWrite]
  /\ AdminUnchanged

\* Click on the Edit button of a listed album, up to `await ...doc(tagId).get()`.
handleEditAlbum(tagId) ==
  /\ admin.editing = None
  /\ Resolve(admin.docs, tagId) # NoDoc
  /\ admin' = [admin EXCEPT !.editing = tagId]
  /\ AdminUnchanged

\* Variant that leaves the tag field enabled.
handleEditAlbumReplyEnabled ==
  /\ admin.editing # None
  /\ LET tagId == admin.editing
         album == Resolve(admin.docs, tagId)
     IN IF album # NoDoc
          THEN admin' = [admin EXCEPT !.form = [rfidTag |-> tagId, artist |-> album.artist,
                                                album |-> album.album, disabled |-> FALSE],
                                      !.currentEditRfidTag = tagId,
                                      !.editing = None]
          ELSE admin' = [admin EXCEPT !.editing = None]
  /\ AdminUnchanged

\* The get resolves: an existing document fills the form, the tag field is
\* disabled and currentEditRfidTag set.
handleEditAlbumReply ==
  /\ admin.editing # None
  /\ LET tagId == admin.editing
         album == Resolve(admin.docs, tagId)
     IN IF album # NoDoc
          THEN admin' = [admin EXCEPT !.form = [rfidTag |-> tagId, artist |-> album.artist,
                                                album |-> album.album, disabled |-> TRUE],
                                      !.currentEditRfidTag = tagId,
                                      !.editing = None]
          ELSE admin' = [admin EXCEPT !.editing = None]
  /\ AdminUnchanged

\* handleDeleteAlbum(tagId), confirmed: the document is deleted.
handleDeleteAlbum(tagId) ==
  /\ Resolve(admin.docs, tagId) # NoDoc
  /\ admin' = [admin EXCEPT !.docs = {d \in @ : d.id # tagId}]
  /\ AdminUnchanged

NextAdmin ==
  \/ \E tagInput \in TagInputs, m \in Mappings : fillAlbumForm(tagInput, m)
  \/ saveAlbum
  \/ \E ok \in BOOLEAN : saveAlbumReply(ok)
  \/ clearAlbumFormBtn
  \/ \E rfidInput \in TagInputs, m \in Mappings : addAlbumDoc(rfidInput, m)
  \/ \E ok \in BOOLEAN : addAlbumDocReply(ok)
  \/ \E tagId \in AdminTags : handleEditAlbum(tagId)
  \/ handleEditAlbumReply
  \/ \E tagId \in AdminTags : handleDeleteAlbum(tagId)

SpecAdmin == InitAdmin /\ [][NextAdmin]_vars

\* ------------------------------------------------------------ properties

\* What the newest log line says about the batch it reports on.
Submitted(line) == IF Len(line.sent) = 2 THEN line.sent[2].entries ELSE 0
\* A run of handleScan for e is suspended on a remote call.
Suspended(e) == h[e].pc \in InFlight
\* This step sends the named request for e.
SendsGetinfo(e) == h[e].pc = "lookup" /\ h'[e].pc = "getinfo"
SendsScrobble(e) == h[e].pc = "getinfo" /\ h'[e].pc = "scrobble"

C2_AtMostOneScrobble ==
  [][\A e \in ScanIds : SendsScrobble(e) => ~svc[e].scrobble]_vars

\* C3: a scan event is claimed exactly once: no handler is started for an
\* event for which a handler was started before.
C3_ClaimedOnce ==
  [][\A e \in ScanIds : (h[e].pc = "idle" /\ h'[e].pc # "idle") => ~claimed[e]]_vars

\* C4: at no point are two scan events both in flight (claimed and not yet
\* in a terminal state).
C4_OneInFlight ==
  Cardinality({e \in ScanIds : Suspended(e)}) <= 1

\* C5: no exception escapes the scan handler: no run of handleScan ends with
\* its promise rejected.
C5_NoEscapedException ==
  \A e \in ScanIds : h[e].pc # "rejected"

\* C6: once the processing of an observed scan record has ended, whatever the
\* outcome, the record is no longer in the scans store.
C6_DeletedWhenProcessingEnds ==
  \A e \in ScanIds : h[e].pc \in {"done", "rejected"} => e \notin scans

\* C7: a resolved scan (one whose mapping was found, so album.getinfo was
\* sent) is reported Completed exactly when a non-empty batch was submitted and
\* the service reported an accepted count of at least one; every other resolved
\* scan ends reported as Failed.
C7_ResolvedOutcome ==
  /\ scrobbleLog.sent # <<>> =>
       /\ scrobbleLog.outcome \in {"Completed", "Failed"}
       /\ scrobbleLog.outcome = "Completed" <=>
            (Submitted(scrobbleLog) >= 1 /\ scrobbleLog.accepted >= 1)
  /\ \A e \in ScanIds : h[e].pc = "rejected" => h[e].sent = <<>>

\* C8 (as stated): when the service accepts fewer scrobbles than were
\* submitted, the batch is reported as a failure.
C8_PartialIsFailure ==
  (scrobbleLog.accepted >= 0 /\ scrobbleLog.accepted < Submitted(scrobbleLog))
    => scrobbleLog.outcome = "Failed"

\* C8 (amended): when the service accepts fewer scrobbles than were submitted,
\* the batch is reported as a failure if and only if the accepted count is
\* zero; with at least one accepted entry it is reported as a success.
C8_PartialIsFailureOnlyAtZero ==
  (scrobbleLog.accepted >= 0 /\ scrobbleLog.accepted < Submitted(scrobbleLog))
    => /\ scrobbleLog.outcome \in {"Completed", "Failed"}
       /\ scrobbleLog.outcome = "Failed" <=> scrobbleLog.accepted = 0

\* C8 witness: one of two submitted entries was accepted and the result is logged.
C8_Witness ==
  /\ Submitted(scrobbleLog) = 2 /\ scrobbleLog.accepted = 1
  /\ scrobbleLog.outcome \in Outcomes

\* C9: when the mapping lookup of a scan returns no mapping, the run ends in
\* that step reported as Unresolved, having sent no request, and the step
\* sends nothing to the scrobbling service.
C9_UnmappedHalts ==
  [][\A e \in ScanIds :
       (/\ h[e].pc = "lookup" /\ albums[rfid[e]] = NoDoc
        /\ h'[e].pc \notin {"lookup", "idle", "rejected"}) =>
         /\ h'[e].pc = "done"
         /\ scrobbleLog'.outcome = "Unresolved"
         /\ scrobbleLog'.sent = <<>>
         /\ svc' = svc]_vars

\* C9 witness: a scan of an unmapped tag was just reported as Unresolved.
C9_Witness ==
  /\ scrobbleLog.outcome = "Unresolved"
  /\ \E e \in ScanIds : h[e].pc = "done" /\ claimed[e] /\ ~svc[e].getinfo /\ ~svc[e].scrobble

\* C10: for one scan event at most one album.getinfo and at most one
\* track.scrobble request are issued: no step sends either request for an
\* event the service has already received that request for.
C10_NoRetry ==
  [][\A e \in ScanIds :
       /\ SendsGetinfo(e) => ~svc[e].getinfo
       /\ SendsScrobble(e) => ~svc[e].scrobble]_vars

\* The request sent last, and the parameters of a request in full.
LastSent(hd) == hd.sent[Len(hd.sent)]
Param(req, name) == Get(req.params, CodeUnits(name))
EntryParam(req, name, i) == Get(req.params, IndexedKey(name, i))
HasEntryParam(req, name, i) == Has(req.params, IndexedKey(name, i))

\* C11: end to end.  A lookup that finds no mapping for the scanned tag ends in
\* Unresolved with nothing sent; a lookup that finds the mapping (after it was
\* upserted) is resolved to it and asks for the tracklist; the batch then
\* submitted has one entry per track, its timestamps 240 s apart and the last
\* one equal to the current time; and a response that accepts all entries
\* ends the scan in Completed.
C11_EndToEnd ==
  [][\A e \in ScanIds :
       /\ (h[e].pc = "lookup" /\ h'[e].pc \in {"done", "getinfo"}) =>
            IF albums[rfid[e]] = NoDoc
              THEN /\ h'[e].pc = "done"
                   /\ scrobbleLog'.outcome = "Unresolved"
                   /\ scrobbleLog'.sent = <<>>
              ELSE /\ h'[e].pc = "getinfo"
                   /\ h'[e].albumData = albums[rfid[e]]
                   /\ Len(h'[e].sent) = 1
                   /\ LastSent(h'[e]).method = CodeUnits("album.getinfo")
       /\ SendsScrobble(e) =>
            LET req == LastSent(h'[e])
                N == Len(h'[e].tracks)
                ts == h'[e].timestamps
            IN /\ N >= 1
               /\ req.method = CodeUnits("track.scrobble")
               /\ req.entries = N
               /\ Len(ts) = N
               /\ ts[N] = h'[e].now
               /\ \A i \in 1..(N - 1) : ts[i + 1] - ts[i] = 240
       /\ (h[e].pc = "scrobble" /\ h'[e].pc = "done"
             /\ scrobbleLog'.accepted = Len(h[e].tracks)) =>
            /\ scrobbleLog'.outcome = "Completed"
            /\ scrobbleLog'.sent = h[e].sent
  ]_vars

\* C11 witness: the log still shows the Unresolved line of the first scan of
\* the tag while, the mapping having been added, the rescan of the same tag has
\* submitted a batch with more than one entry.
C11_Witness ==
  /\ scrobbleLog.outcome = "Unresolved"
  /\ h[1].pc = "done" /\ ~svc[1].getinfo
  /\ rfid[2] = rfid[1]
  /\ albums[rfid[2]] # NoDoc
  /\ h[2].pc = "scrobble"
  /\ LastSent(h[2]).entries = MaxTracks
  /\ MaxTracks > 1

\* C12: a batch of N >= 1 tracks built at reference time T carries in entry i
\* (0-indexed) the timestamp T - 240*(N-1-i): the last entry carries T and
\* consecutive entries differ by exactly 240.
C12_TimestampSpacing ==
  run.pc = "scrobble" =>
    LET req == LastSent(run)
        N == Len(run.tracklistData.track)
        T == run.ms \div 1000
    IN /\ N >= 1
       /\ \A i \in 0..(N - 1) :
            EntryParam(req, "timestamp", i) = Digits(T - 240 * (N - 1 - i))
       /\ EntryParam(req, "timestamp", N - 1) = Digits(T)
       /\ \A i \in 0..(N - 2) :
            \E t \in {T - 240 * k : k \in 1..N} :
              /\ EntryParam(req, "timestamp", i) = Digits(t)
              /\ EntryParam(req, "timestamp", i + 1) = Digits(t + 240)

\* C12 witness: a submitted batch of MaxTracks entries, built at the later of
\* the reference times.
C12_Witness ==
  /\ run.pc = "scrobble"
  /\ Len(run.tracks) = MaxTracks
  /\ \A ms \in DateNow : run.now >= ms \div 1000
  /\ EntryParam(LastSent(run), "timestamp", 0) # Digits(run.now)

\* C13: the track names of the submitted batch appear, by index 0..N-1, in the
\* order of the tracklist the remote service returned.
C13_TrackOrder ==
  run.pc = "scrobble" =>
    /\ LastSent(run).entries = Len(run.tracklistData.track)
    /\ \A i \in 0..(Len(run.tracklistData.track) - 1) :
         EntryParam(LastSent(run), "track", i) = run.tracklistData.track[i + 1].name

\* C13 witness: a submitted batch of a tracklist that starts with the track
\* named last and whose first and last track differ.
C13_Witness ==
  /\ run.pc = "scrobble"
  /\ run.tracklistData.kind = "list"
  /\ Len(run.tracklistData.track) = MaxTracks
  /\ run.tracklistData.track[1] = TrackName(MaxTracks)
  /\ run.tracklistData.track[MaxTracks] = TrackName(1)
  /\ MaxTracks > 1

\* The keys of the form `name[...]` of a request.
EntryKeys(req, name) ==
  {req.params[j][1] : j \in {k \in 1..Len(req.params) :
                               HasPrefix(req.params[k][1], CodeUnits(name) \o <<91>>)}}

\* C14: the submitted batch scrobbles every track of the album: for N tracks
\* it has exactly N entries, indices 0..N-1, each with the artist and album of
\* the resolved mapping, and exactly one artist, album, track and timestamp
\* parameter per index.
C14_EveryTrackScrobbled ==
  run.pc = "scrobble" =>
    LET req == LastSent(run)
        N == Len(run.tracklistData.track)
    IN /\ req.entries = N
       /\ \A name \in {"artist", "album", "track", "timestamp"} :
            EntryKeys(req, name) = {IndexedKey(name, i) : i \in 0..(N - 1)}
       /\ \A j, k \in 1..Len(req.params) : req.params[j][1] = req.params[k][1] => j = k
       /\ \A i \in 0..(N - 1) :
            /\ EntryParam(req, "artist", i) = CodeUnits(run.albumData.artist)
            /\ EntryParam(req, "album", i) = CodeUnits(run.albumData.album)

\* C14 witness: a submitted batch of MaxTracks entries of a resolved mapping.
C14_Witness ==
  /\ run.pc = "scrobble"
  /\ run.albumData \in Mappings
  /\ Len(run.tracklistData.track) = MaxTracks
  /\ HasEntryParam(LastSent(run), "album", MaxTracks - 1)

\* The album.getinfo result names no track: an empty list or no list at all.
EmptyTracklist(tracklistData) ==
  \/ tracklistData.kind = "noTrack"
  \/ tracklistData.kind = "list" /\ Len(tracklistData.track) = 0

\* C15: an empty tracklist is rejected: the scan fails, no zero-entry batch is
\* built and no track.scrobble request is sent.
C15_EmptyTracklistRejected ==
  /\ (EmptyTracklist(run.tracklistData) /\ run.pc \notin {"start", "authenticated", "getinfo"})
       => /\ run.pc = "failed"
          /\ \A j \in 1..Len(run.sent) : run.sent[j].method # CodeUnits("track.scrobble")
  /\ \A j \in 1..Len(run.sent) :
       run.sent[j].method = CodeUnits("track.scrobble") => run.sent[j].entries >= 1

\* C15 witness: scrobbleAlbum has ended in failure on an empty list, after its
\* album.getinfo request.
C15_Witness ==
  /\ run.tracklistData.kind = "list"
  /\ Len(run.tracklistData.track) = 0
  /\ run.pc = "failed"
  /\ LastSent(run).method = CodeUnits("album.getinfo")

\* C16: a single track returned as a bare object is normalized to a
\* one-element sequence before the batch is built; the batch has exactly one
\* entry, index 0, with the current time as timestamp.
C16_SingleTrackNormalized ==
  (run.tracklistData.kind = "object" /\ run.pc \notin {"start", "authenticated", "getinfo"}) =>
    LET req == LastSent(run)
    IN /\ run.pc = "scrobble"
       /\ run.tracks = <<run.tracklistData.track[1]>>
       /\ req.method = CodeUnits("track.scrobble")
       /\ req.entries = 1
       /\ EntryKeys(req, "track") = {IndexedKey("track", 0)}
       /\ EntryKeys(req, "timestamp") = {IndexedKey("timestamp", 0)}
       /\ EntryParam(req, "track", 0) = run.tracklistData.track[1].name
       /\ EntryParam(req, "timestamp", 0) = Digits(run.ms \div 1000)

\* C16 witness: a batch submitted for a bare track object.
C16_Witness ==
  /\ run.pc = "scrobble"
  /\ run.tracklistData.kind = "object"
  /\ LastSent(run).method = CodeUnits("track.scrobble")

\* The parameters of a request other than those named in `names`.
Without(params, names) ==
  SelectSeq(params, LAMBDA kv : \A name \in names : kv[1] # CodeUnits(name))

\* C17: in every signed request the signature was computed before format was
\* added: api_sig is the signature of exactly the caller's parameters plus
\* api_key (the request without api_sig and format), and format is in the
\* request that is sent.
C17_SignedBeforeFormat ==
  \A j \in 1..Len(run.sent) :
    LET req == run.sent[j]
    IN req.signed =>
         /\ Has(req.params, CodeUnits("format"))
         /\ Has(req.params, CodeUnits("api_sig"))
         /\ Has(Without(req.params, {"api_sig", "format"}), CodeUnits("api_key"))
         /\ Param(req, "api_sig")
              = generateApiSignature(Without(req.params, {"api_sig", "format"}),
                                     lastFmCreds.apiSecret)
         /\ Param(req, "api_sig")
              # generateApiSignature(Without(req.params, {"api_sig"}), lastFmCreds.apiSecret)

\* C17 witness: the signed auth.getSession request and a signed track.scrobble
\* request of MaxTracks entries have been sent.
C17_Witness ==
  /\ Len(run.sent) = 3
  /\ run.sent[1].signed /\ run.sent[1].method = CodeUnits("auth.getSession")
  /\ run.sent[3].signed /\ run.sent[3].method = CodeUnits("track.scrobble")
  /\ run.sent[3].entries = MaxTracks

\* C18: the signature does not depend on the insertion order of the keys: two
\* mappings with the same key/value pairs inserted in different orders have
\* the same signature.
C18_OrderIndependent ==
  sig.pc = "returned" => sig.signature = sig.signatureReordered

\* C18 witness: two mappings of MaxParams properties inserted in different
\* orders have been signed.
C18_Witness ==
  /\ sig.pc = "returned"
  /\ Len(sig.params) = MaxParams
  /\ sig.reordered # sig.params
  /\ {sig.params[j] : j \in 1..Len(sig.params)}
       = {sig.reordered[j] : j \in 1..Len(sig.reordered)}

\* key followed by value, for each property of a sequence, with nothing between.
RECURSIVE KeyValueString(_)
KeyValueString(p) ==
  IF p = <<>> THEN <<>> ELSE p[1][1] \o p[1][2] \o KeyValueString(Tail(p))

\* C19: the signature is the digest of the string made of key followed by
\* value for each key in ascending lexicographic key order, without
\* separators, with the secret appended.
C19_SortedConcatenation ==
  sig.pc = "returned" =>
    \E order \in Orders(Len(sig.params)) :
      LET sorted == [i \in 1..Len(sig.params) |-> sig.params[order[i]]]
      IN /\ \A j \in 1..(Len(sorted) - 1) : LexLess(sorted[j][1], sorted[j + 1][1])
         /\ sig.signature = MD5(KeyValueString(sorted) \o sig.secret)

\* C19 witness: a signed mapping whose keys "ab" and "a" were inserted in
\* descending order; its signature digests "a", the value of "a", "ab", the
\* value of "ab" and the secret.
C19_Witness ==
  /\ sig.pc = "returned"
  /\ Len(sig.params) = 2
  /\ sig.params[1][1] = <<97, 98>>
  /\ sig.params[2][1] = <<97>>
  /\ sig.signature = MD5(<<97>> \o sig.params[2][2] \o <<97, 98>> \o sig.params[1][2]
                           \o sig.secret)

\* C20: every request sent to the scrobbling service carries api_key and
\* format; it carries api_sig if and only if it was issued as signed.
C20_KeyFormatSignature ==
  \A j \in 1..Len(run.sent) :
    LET req == run.sent[j]
    IN /\ Has(req.params, CodeUnits("api_key"))
       /\ Param(req, "api_key") = lastFmCreds.apiKey
       /\ Has(req.params, CodeUnits("format"))
       /\ Param(req, "format") = CodeUnits("json")
       /\ Has(req.params, CodeUnits("api_sig")) <=> req.signed

\* C20 witness: the signed auth.getSession request, the unsigned album.getinfo
\* request and the signed track.scrobble request have been sent.
C20_Witness ==
  /\ Len(run.sent) = 3
  /\ run.sent[1].signed /\ Has(run.sent[1].params, CodeUnits("api_sig"))
  /\ ~run.sent[2].signed /\ ~Has(run.sent[2].params, CodeUnits("api_sig"))
  /\ run.sent[3].signed /\ Has(run.sent[3].params, CodeUnits("api_sig"))

\* C21: auth.getSession is sent as a signed GET that carries the token,
\* album.getinfo as an unsigned GET that carries artist, album and username,
\* track.scrobble as a signed POST that carries the session key sk; and the
\* track.scrobble request of a scan comes after its album.getinfo request.
C21_VerbAndSigning ==
  \A i \in 1..Len(run.sent) :
    LET req == run.sent[i]
        carries(name) == Has(req.params, CodeUnits(name))
    IN /\ req.method \in {CodeUnits("auth.getSession"), CodeUnits("album.getinfo"),
                          CodeUnits("track.scrobble")}
       /\ req.method = CodeUnits("auth.getSession") =>
            /\ req.verb = "GET" /\ req.signed /\ carries("api_sig")
            /\ Param(req, "token") = CodeUnits("tok1")
       /\ req.method = CodeUnits("album.getinfo") =>
            /\ req.verb = "GET" /\ ~req.signed /\ ~carries("api_sig")
            /\ Param(req, "artist") = CodeUnits(run.albumData.artist)
            /\ Param(req, "album") = CodeUnits(run.albumData.album)
            /\ Param(req, "username") = lastFmCreds.username
       /\ req.method = CodeUnits("track.scrobble") =>
            /\ req.verb = "POST" /\ req.signed /\ carries("api_sig")
            /\ Param(req, "sk") = CodeUnits(lastFmSessionKey)
            /\ \E j \in 1..(i - 1) : run.sent[j].method = CodeUnits("album.getinfo")

\* The run has sent all three requests.
C21_Witness ==
  /\ Len(run.sent) = 3
  /\ run.sent[1].method = CodeUnits("auth.getSession")
  /\ run.sent[2].method = CodeUnits("album.getinfo")
  /\ run.sent[3].method = CodeUnits("track.scrobble")
  /\ run.sent[3].verb = "POST"

\* C22: a request answered with a non-success HTTP status fails with a
\* remote-service error that carries the service's code and message, a
\* transport failure (fetch rejected, body not JSON) fails with a transport
\* error; the caller receives two different failures and in neither case a
\* parsed response.
C22_ErrorOutcomes ==
  LET f == page.fetched
      r == page.result
      remote == f.kind = "response" /\ ~f.ok /\ f.json
      transport == f.kind = "rejected" \/ (f.kind = "response" /\ ~f.json)
  IN /\ remote => /\ r.thrown.kind = "RemoteServiceError"
                  /\ r.thrown.code = f.error
                  /\ r.thrown.message = f.message
                  /\ r.returned # "body"
     /\ transport => /\ r.thrown.kind = "TransportError"
                     /\ r.returned # "body"

\* C23: a signed request is sent only while the API secret and a session key
\* are both present in the page's credential state.
C23_SignedNeedsCredentials ==
  page.req.signed =>
    /\ page.held.apiSecret # <<>>
    /\ page.held.sessionKey # None

\* C26: a session key that is held changes only when the settings are loaded
\* or when auth.getSession answers with a session; no scan, failed request,
\* credential save or mapping operation clears or replaces it.
C26_SessionKeyKept ==
  [][lastFmSessionKey # None /\ lastFmSessionKey' # lastFmSessionKey =>
       \/ /\ lastFmSessionKey' = sessionStore
          /\ \E token \in BOOLEAN : page' = Loaded(token, configStore)
       \/ /\ page.auth = "exchanging"
          /\ page'.auth = "idle"
          /\ page'.result.returned = "body"]_vars

\* A page that holds a session key after a scan whose request failed, a
\* credential save and an upsert of the scanned tag's mapping.
C26_Witness ==
  /\ lastFmSessionKey # None
  /\ page.scan = "done"
  /\ page.outcome = "Failed"
  /\ page.result.returned = "null"
  /\ page.saved = "saved"
  /\ lastFmCreds # page.before
  /\ albums[page.rfid] # page.albumData

C29_KeyAndSecretTogether ==
  page.req.method # <<>> =>
    \E c \in Credentials :
      /\ Param(page.req, "api_key") = c.apiKey
      /\ page.req.signed =>
           Param(page.req, "api_sig")
             = generateApiSignature(Without(page.req.params, {"api_sig", "format"}),
                                    c.apiSecret)

\* A signed track.scrobble request sent while saveSettings was waiting for
\* setDoc, with the key of the credentials being saved.
C29_Witness ==
  /\ page.save = "writing"
  /\ page.scan = "scrobble"
  /\ page.req.method = CodeUnits("track.scrobble")
  /\ Param(page.req, "api_key") = lastFmCreds.apiKey
  /\ page.before.apiKey # lastFmCreds.apiKey
  /\ page.before.apiSecret # lastFmCreds.apiSecret

\* C30: after saveSettings has finished, lastFmCreds equals the stored
\* credential record when the write succeeded and is what it was before the
\* save when the write failed (the failure being logged).
C30_MemoryEqualsStore ==
  page.save = "idle" =>
    /\ page.saved = "saved" => lastFmCreds = configStore
    /\ page.saved = "failed" => lastFmCreds = page.before

\* C27: a scan reported while no session key is held is handled without a
\* mapping lookup and without a request to the scrobbling service, is logged
\* as "Last.fm is not authenticated", and its document is deleted.
C27_NoSessionScan ==
  [][\A e \in ScanIds :
       h[e].pc = "idle" /\ h'[e].pc # "idle" /\ lastFmSessionKey = None =>
         /\ h'[e].pc = "done"
         /\ h'[e].albumData = NoDoc
         /\ h'[e].sent = <<>>
         /\ svc'[e] = svc[e]
         /\ scrobbleLog'.outcome = "NotAuthenticated"
         /\ scrobbleLog'.sent = <<>>
         /\ e \notin scans']_vars

\* A scan was handled while no session key was held.
C27_Witness ==
  /\ lastFmSessionKey = None
  /\ scrobbleLog.outcome = "NotAuthenticated"
  /\ \E e \in ScanIds :
       /\ claimed[e]
       /\ h[e].pc = "done"
       /\ e \notin scans
       /\ ~svc[e].getinfo /\ ~svc[e].scrobble

\* C24: a write of a mapping leaves exactly one document for its tag id, which
\* resolves to the mapping written (the last write wins), and leaves the other
\* tags alone; writing a mapping the tag already resolves to leaves every tag
\* resolving as before and adds no document.
C24_UpsertIdempotent ==
  [][admin'.writes = admin.writes + 1 =>
       LET w == admin.saving
           m == [artist |-> w.artist, album |-> w.album]
       IN /\ Resolve(admin'.docs, w.tagId) = m
          /\ Cardinality({d \in admin'.docs : d.id = w.tagId}) = 1
          /\ \A t \in AdminTags \ {w.tagId} :
               {d \in admin'.docs : d.id = t} = {d \in admin.docs : d.id = t}
          /\ Resolve(admin.docs, w.tagId) = m =>
               /\ Resolvable(admin'.docs) = Resolvable(admin.docs)
               /\ Cardinality(admin'.docs) = Cardinality(admin.docs)]_vars

\* The same mapping was written a second time, by the admin page's Save.
C24_Witness ==
  /\ admin.repeated
  /\ admin.writes >= 2
  /\ \E d \in admin.docs : d.updatedAt = admin.writes

\* C25: every document has one tag id, which is the id it was created under;
\* while a mapping is being edited the tag field holds its tag id and takes no
\* input, and a save made while editing writes to that tag id.
C25_TagIdImmutable ==
  /\ \A d1, d2 \in admin.docs : d1.id = d2.id => d1 = d2
  /\ \A d \in admin.docs : d.id \in AdminTags /\ d.rfid_tag \in {None, d.id}
  /\ admin.currentEditRfidTag # None =>
       /\ admin.form.rfidTag = admin.currentEditRfidTag
       /\ admin.form.disabled
  /\ admin.saving.edit # None => admin.saving.tagId = admin.saving.edit

\* A save is in flight that was made while an existing mapping was being
\* edited and that changes its album.
C25_Witness ==
  /\ admin.saving.kind = "merge"
  /\ admin.saving.edit # None
  /\ Resolve(admin.docs, admin.saving.edit) # NoDoc
  /\ Resolve(admin.docs, admin.saving.edit).album # admin.saving.album

====
